---- MODULE Spec2Model ----
(***************************************************************************)
(* The Cognito user pool resource handler of                               *)
(* aws/resource_aws_cognito_user_pool.go: the four handlers Create, Read,  *)
(* Update and Delete acting on one ResourceData d and on the remote        *)
(* service behind conn (CreateUserPool, DescribeUserPool, UpdateUserPool,  *)
(* DeleteUserPool).                                                        *)
(*                                                                         *)
(* Go values are represented as follows.                                   *)
(*   - a pointer of the SDK (to a string, a slice, a map, a struct) is   *)
(*     a sequence of length 0 (nil) or 1 (<<v>>, a pointer to v);          *)
(*   - an unset attribute of d is its zero value: "" for a string, <<>>    *)
(*     for a list, {} for the tags map (a set of <<key, value>> pairs);    *)
(*   - an element of a configuration block list is a record whose field    *)
(*     isnil says that the element is the nil interface value, the value   *)
(*     for which configs[0].(map[string]interface{}) is not ok.            *)
(***************************************************************************)
EXTENDS Naturals, Sequences, FiniteSets

VARIABLES d, pools, nextId, updates, last

vars == <<d, pools, nextId, updates, last>>

----------------------------------------------------------------------------
(* Bounds of the model. *)

\* The number of user pools the remote service creates in one run.
MaxPools == 1

\* The number of Update runs in one run.
MaxUpdates == 1

----------------------------------------------------------------------------
(* Values *)

Nil == <<>>

Ptr(v) == <<v>>

\* The identifiers the remote service hands out, in order.
PoolIds == <<"us-east-1_A", "us-east-1_B", "us-east-1_C", "us-east-1_D">>

AllIds == {PoolIds[i] : i \in 1..Len(PoolIds)}

UserPoolMfaTypeOff == "OFF"

NilElem == [isnil |-> TRUE]

EmailElem(reply, arn) ==
  [isnil |-> FALSE, reply_to_email_address |-> reply, source_arn |-> arn]

SmsElem(ext, arn) ==
  [isnil |-> FALSE, external_id |-> ext, sns_caller_arn |-> arn]

\* The attributes of the schema other than name, which is required.
OptionalKeys ==
  {"alias_attributes", "auto_verified_attributes", "email_configuration",
   "email_verification_subject", "email_verification_message",
   "mfa_configuration", "sms_authentication_message", "sms_configuration",
   "sms_verification_message", "tags"}

\* The zero value of each attribute's schema type.
Zero ==
  [alias_attributes |-> <<>>, auto_verified_attributes |-> <<>>,
   email_configuration |-> <<>>, email_verification_subject |-> "",
   email_verification_message |-> "", mfa_configuration |-> "",
   sms_authentication_message |-> "", sms_configuration |-> <<>>,
   sms_verification_message |-> "", tags |-> {}]

\* The values a configuration file gives each attribute ("" , <<>> and {}:
\* the attribute is not written in the configuration).
ConfigValues ==
  [alias_attributes |-> {<<>>, <<"email">>},
   auto_verified_attributes |-> {<<>>, <<"email">>, <<"phone_number">>},
   email_configuration |->
     {<<>>, <<NilElem>>, <<EmailElem("r@example.com", "")>>,
      <<EmailElem("", "arn:aws:ses:1")>>},
   email_verification_subject |-> {"", "s1", "s2"},
   email_verification_message |-> {"", "m1"},
   mfa_configuration |-> {"", "OFF", "ON"},
   sms_authentication_message |-> {"", "a1"},
   sms_configuration |->
     {<<>>, <<NilElem>>, <<SmsElem("", "arn:aws:iam:1")>>,
      <<SmsElem("ext", "arn:aws:iam:1")>>},
   sms_verification_message |-> {"", "v1"},
   tags |-> {{}, {<<"env", "prod">>}}]

SetKeys(c) == {k \in OptionalKeys : c[k] # Zero[k]}

\* The configuration that writes the name alone.
NameOnly ==
  [name |-> "pool1", alias_attributes |-> <<>>,
   auto_verified_attributes |-> <<>>, email_configuration |-> <<>>,
   email_verification_subject |-> "", email_verification_message |-> "",
   mfa_configuration |-> "", sms_authentication_message |-> "",
   sms_configuration |-> <<>>, sms_verification_message |-> "", tags |-> {}]

\* c with one more optional attribute written.
OneMore(c) ==
  UNION {{[c EXCEPT ![k] = v] : v \in ConfigValues[k] \ {Zero[k]}} :
           k \in OptionalKeys \ SetKeys(c)}

\* A configuration that writes several attributes, the two blocks among
\* them, and one that keeps its blocks and differs in the other attributes.
Several ==
  [NameOnly EXCEPT
     !.email_configuration = <<EmailElem("r@example.com", "arn:aws:ses:1")>>,
     !.email_verification_subject = "s1",
     !.mfa_configuration = "ON",
     !.sms_configuration = <<SmsElem("ext", "arn:aws:iam:1")>>,
     !.tags = {<<"env", "prod">>}]

SeveralElse ==
  [Several EXCEPT !.auto_verified_attributes = <<"phone_number">>,
                  !.email_verification_subject = "s2",
                  !.mfa_configuration = "",
                  !.tags = {}]

\* A configuration whose two blocks are both written empty.
BothEmpty ==
  [NameOnly EXCEPT !.email_configuration = <<NilElem>>,
                   !.sms_configuration = <<NilElem>>]

\* The configurations the handlers are run on: the name alone, the name and
\* one optional attribute with each of its values, and the three above.
Configs ==
  {NameOnly, Several, SeveralElse, BothEmpty} \cup OneMore(NameOnly)

----------------------------------------------------------------------------
(* The ResourceData d: its identifier and its attributes.                  *)

\* A resource that is not tracked: SetId(""), which State() turns into no
\* state at all.
NoResource ==
  [id |-> "", name |-> "",
   alias_attributes |-> <<>>, auto_verified_attributes |-> <<>>,
   email_configuration |-> <<>>, email_verification_subject |-> "",
   email_verification_message |-> "", mfa_configuration |-> "",
   sms_authentication_message |-> "", sms_configuration |-> <<>>,
   sms_verification_message |-> "", tags |-> {}]

\* What d.Get reads when the handler starts: the configuration c laid over
\* the resource with identifier id, mfa_configuration taking the schema's
\* Default when the configuration does not write it.
Planned(id, c) ==
  [id |-> id, name |-> c.name,
   alias_attributes |-> c.alias_attributes,
   auto_verified_attributes |-> c.auto_verified_attributes,
   email_configuration |-> c.email_configuration,
   email_verification_subject |-> c.email_verification_subject,
   email_verification_message |-> c.email_verification_message,
   mfa_configuration |->
     IF c.mfa_configuration = "" THEN UserPoolMfaTypeOff
     ELSE c.mfa_configuration,
   sms_authentication_message |-> c.sms_authentication_message,
   sms_configuration |-> c.sms_configuration,
   sms_verification_message |-> c.sms_verification_message,
   tags |-> c.tags]

\* v, ok := d.GetOk(k): ok says that the attribute is not its zero value.
GetOk(dd, k) == dd[k] # Zero[k]

\* d.HasChange(k): the planned value differs from the prior state's.
HasChange(old, dd, k) == old[k] # dd[k]

----------------------------------------------------------------------------
(* Errors *)

NoError == [aws |-> FALSE, code |-> ""]

\* awserr.Error values of the service, and an error that is no awserr.Error.
NotFoundError == [aws |-> TRUE, code |-> "ResourceNotFoundException"]

ServiceError == [aws |-> TRUE, code |-> "InternalErrorException"]

TransportError == [aws |-> FALSE, code |-> "RequestError"]

FaultError(f) == IF f = "service" THEN ServiceError ELSE TransportError

\* What a handler returns: nil, a remote error as it came (raw), a remote
\* error wrapped by errwrap.Wrapf (wrapped), errors.New("... is <nil>")
\* (shape), or no return at all: a runtime panic, index out of range.
Returned(kind, cause) == [kind |-> kind, cause |-> cause]

ErrNil == Returned("nil", NoError)

aCall(api, key, ok) == [api |-> api, key |-> key, ok |-> ok]

----------------------------------------------------------------------------
(* The remote service behind conn: a pool per identifier, nil or a         *)
(* UserPoolType.                                                           *)

RemoteKeys ==
  {"AliasAttributes", "AutoVerifiedAttributes", "EmailConfiguration",
   "EmailVerificationSubject", "EmailVerificationMessage", "MfaConfiguration",
   "SmsAuthenticationMessage", "SmsConfiguration", "SmsVerificationMessage",
   "UserPoolTags"}

PoolExists(ps, id) == id \in DOMAIN ps /\ ps[id] # Nil

\* The pool CreateUserPool makes of its input: what it was sent, under a
\* new identifier.
CreatedPool(id, params) ==
  [Id |-> id, Name |-> params.PoolName,
   AliasAttributes |-> params.AliasAttributes,
   AutoVerifiedAttributes |-> params.AutoVerifiedAttributes,
   EmailConfiguration |-> params.EmailConfiguration,
   EmailVerificationSubject |-> params.EmailVerificationSubject,
   EmailVerificationMessage |-> params.EmailVerificationMessage,
   MfaConfiguration |-> params.MfaConfiguration,
   SmsAuthenticationMessage |-> params.SmsAuthenticationMessage,
   SmsConfiguration |-> params.SmsConfiguration,
   SmsVerificationMessage |-> params.SmsVerificationMessage,
   UserPoolTags |-> params.UserPoolTags]

\* The pool UpdateUserPool makes of a pool and its input: the fields the
\* input carries replace the pool's, the others stay.
Carry(sent, kept) == IF sent # Nil THEN sent ELSE kept

UpdatedPool(pool, params) ==
  [Id |-> pool.Id, Name |-> pool.Name,
   AliasAttributes |-> pool.AliasAttributes,
   AutoVerifiedAttributes |->
     Carry(params.AutoVerifiedAttributes, pool.AutoVerifiedAttributes),
   EmailConfiguration |->
     Carry(params.EmailConfiguration, pool.EmailConfiguration),
   EmailVerificationSubject |->
     Carry(params.EmailVerificationSubject, pool.EmailVerificationSubject),
   EmailVerificationMessage |->
     Carry(params.EmailVerificationMessage, pool.EmailVerificationMessage),
   MfaConfiguration |->
     Carry(params.MfaConfiguration, pool.MfaConfiguration),
   SmsAuthenticationMessage |->
     Carry(params.SmsAuthenticationMessage, pool.SmsAuthenticationMessage),
   SmsConfiguration |->
     Carry(params.SmsConfiguration, pool.SmsConfiguration),
   SmsVerificationMessage |->
     Carry(params.SmsVerificationMessage, pool.SmsVerificationMessage),
   UserPoolTags |-> Carry(params.UserPoolTags, pool.UserPoolTags)]

\* conn.DescribeUserPool: a fault of the service or of the transport, or
\* ResourceNotFoundException when there is no such pool, or the pool.
DescribeUserPool(ps, id, fault) ==
  IF fault # "none" THEN [ok |-> FALSE, err |-> FaultError(fault), pool |-> Nil]
  ELSE IF ~PoolExists(ps, id)
    THEN [ok |-> FALSE, err |-> NotFoundError, pool |-> Nil]
  ELSE [ok |-> TRUE, err |-> NoError, pool |-> ps[id]]

----------------------------------------------------------------------------
(* Conversions between the schema's values and the SDK's.                  *)

StringPtr(v) == IF v # "" THEN Ptr(v) ELSE Nil

\* The EmailConfigurationType built from a block's map: a field is set when
\* the map's value is not "".
expandEmailConfiguration(config) ==
  [ReplyToEmailAddress |-> StringPtr(config.reply_to_email_address),
   SourceArn |-> StringPtr(config.source_arn)]

\* Mutant: external_id is left out of the SmsConfigurationType.
expandSmsConfiguration_NoExternalId(config) ==
  [SnsCallerArn |-> Ptr(config.sns_caller_arn), ExternalId |-> Nil]

\* The SmsConfigurationType built from a block's map: SnsCallerArn always,
\* ExternalId when not "".
expandSmsConfiguration(config) ==
  [SnsCallerArn |-> Ptr(config.sns_caller_arn),
   ExternalId |-> StringPtr(config.external_id)]

Deref(p) == IF p = Nil THEN "" ELSE p[1]

\* nil flattens to the empty list, a configuration to a list of one map.
flattenCognitoUserPoolEmailConfiguration(s) ==
  IF s = Nil THEN <<>>
  ELSE <<EmailElem(Deref(s[1].ReplyToEmailAddress), Deref(s[1].SourceArn))>>

flattenCognitoUserPoolSmsConfiguration(s) ==
  IF s = Nil THEN <<>>
  ELSE <<SmsElem(Deref(s[1].ExternalId), Deref(s[1].SnsCallerArn))>>

\* nil tags are the empty map.
tagsToMapGeneric(t) == IF t = Nil THEN {} ELSE t[1]

----------------------------------------------------------------------------
(* resourceAwsCognitoUserPoolRead                                          *)

\* Mutant: every awserr.Error is taken for not-found.
IsAlreadyGone_AnyAwsError(err) == err.aws

\* awsErr, ok := err.(awserr.Error); ok && awsErr.Code() == "ResourceNotFoundException"
IsAlreadyGone(err) == err.aws /\ err.code = "ResourceNotFoundException"

\* Mutant: email_verification_subject is set whether the response has it or
\* not.
ReadSet_SubjectAlways(dd, up) ==
  [id |-> dd.id, name |-> dd.name,
   alias_attributes |->
     IF up.AliasAttributes # Nil THEN up.AliasAttributes[1]
     ELSE dd.alias_attributes,
   auto_verified_attributes |->
     IF up.AutoVerifiedAttributes # Nil THEN up.AutoVerifiedAttributes[1]
     ELSE dd.auto_verified_attributes,
   email_verification_subject |-> Deref(up.EmailVerificationSubject),
   email_verification_message |->
     IF up.EmailVerificationMessage # Nil THEN up.EmailVerificationMessage[1]
     ELSE dd.email_verification_message,
   mfa_configuration |->
     IF up.MfaConfiguration # Nil THEN up.MfaConfiguration[1]
     ELSE dd.mfa_configuration,
   sms_verification_message |->
     IF up.SmsVerificationMessage # Nil THEN up.SmsVerificationMessage[1]
     ELSE dd.sms_verification_message,
   sms_authentication_message |->
     IF up.SmsAuthenticationMessage # Nil THEN up.SmsAuthenticationMessage[1]
     ELSE dd.sms_authentication_message,
   email_configuration |->
     flattenCognitoUserPoolEmailConfiguration(up.EmailConfiguration),
   sms_configuration |->
     flattenCognitoUserPoolSmsConfiguration(up.SmsConfiguration),
   tags |-> tagsToMapGeneric(up.UserPoolTags)]

\* The d.Set calls of Read on the pool up of the response: an attribute of
\* the first seven is set when the response has it, the last three always.
ReadSet(dd, up) ==
  [id |-> dd.id, name |-> dd.name,
   alias_attributes |->
     IF up.AliasAttributes # Nil THEN up.AliasAttributes[1]
     ELSE dd.alias_attributes,
   auto_verified_attributes |->
     IF up.AutoVerifiedAttributes # Nil THEN up.AutoVerifiedAttributes[1]
     ELSE dd.auto_verified_attributes,
   email_verification_subject |->
     IF up.EmailVerificationSubject # Nil THEN up.EmailVerificationSubject[1]
     ELSE dd.email_verification_subject,
   email_verification_message |->
     IF up.EmailVerificationMessage # Nil THEN up.EmailVerificationMessage[1]
     ELSE dd.email_verification_message,
   mfa_configuration |->
     IF up.MfaConfiguration # Nil THEN up.MfaConfiguration[1]
     ELSE dd.mfa_configuration,
   sms_verification_message |->
     IF up.SmsVerificationMessage # Nil THEN up.SmsVerificationMessage[1]
     ELSE dd.sms_verification_message,
   sms_authentication_message |->
     IF up.SmsAuthenticationMessage # Nil THEN up.SmsAuthenticationMessage[1]
     ELSE dd.sms_authentication_message,
   email_configuration |->
     flattenCognitoUserPoolEmailConfiguration(up.EmailConfiguration),
   sms_configuration |->
     flattenCognitoUserPoolSmsConfiguration(up.SmsConfiguration),
   tags |-> tagsToMapGeneric(up.UserPoolTags)]

\* Mutant: the DescribeUserPool error is wrapped, as the other handlers wrap
\* theirs.
resourceAwsCognitoUserPoolRead_WrapsError(dd, ps, fault) ==
  LET resp == DescribeUserPool(ps, dd.id, fault)
      call == aCall("DescribeUserPool", dd.id, resp.ok)
  IN IF ~resp.ok
       THEN IF IsAlreadyGone(resp.err)
              THEN [d |-> [dd EXCEPT !.id = ""], err |-> ErrNil,
                    calls |-> <<call>>, resp |-> resp]
              ELSE [d |-> dd, err |-> Returned("wrapped", resp.err),
                    calls |-> <<call>>, resp |-> resp]
       ELSE [d |-> ReadSet(dd, resp.pool[1]), err |-> ErrNil,
             calls |-> <<call>>, resp |-> resp]

\* Mutant: not-found returns nil without d.SetId("").
resourceAwsCognitoUserPoolRead_KeepsId(dd, ps, fault) ==
  LET resp == DescribeUserPool(ps, dd.id, fault)
      call == aCall("DescribeUserPool", dd.id, resp.ok)
  IN IF ~resp.ok
       THEN IF IsAlreadyGone(resp.err)
              THEN [d |-> dd, err |-> ErrNil,
                    calls |-> <<call>>, resp |-> resp]
              ELSE [d |-> dd, err |-> Returned("raw", resp.err),
                    calls |-> <<call>>, resp |-> resp]
       ELSE [d |-> ReadSet(dd, resp.pool[1]), err |-> ErrNil,
             calls |-> <<call>>, resp |-> resp]

\* Read on d = dd with the remote pools ps: the d it leaves, the error it
\* returns, the remote calls it made and the response it got.
resourceAwsCognitoUserPoolRead(dd, ps, fault) ==
  LET resp == DescribeUserPool(ps, dd.id, fault)
      call == aCall("DescribeUserPool", dd.id, resp.ok)
  IN IF ~resp.ok
       THEN IF IsAlreadyGone(resp.err)
              THEN [d |-> [dd EXCEPT !.id = ""], err |-> ErrNil,
                    calls |-> <<call>>, resp |-> resp]
              ELSE [d |-> dd, err |-> Returned("raw", resp.err),
                    calls |-> <<call>>, resp |-> resp]
       ELSE [d |-> ReadSet(dd, resp.pool[1]), err |-> ErrNil,
             calls |-> <<call>>, resp |-> resp]

----------------------------------------------------------------------------
(* resourceAwsCognitoUserPoolCreate and resourceAwsCognitoUserPoolUpdate   *)

\* The head of an email_configuration or sms_configuration branch, entered
\* or not: configs[0] of an empty list panics (index out of range), the type
\* assertion on a nil element is not ok and the handler returns
\* errors.New("... is <nil>"), and a map lets the handler go on.
BlockCheck(entered, configs) ==
  IF ~entered THEN "ok"
  ELSE IF Len(configs) = 0 THEN "panic"
  ELSE IF configs[1].isnil THEN "nil"
  ELSE "ok"

\* How the request is built, the email_configuration branch before the
\* sms_configuration one: "ok", or the first return or panic on the way.
BuildOutcome(emailEntered, smsEntered, dd) ==
  LET e == BlockCheck(emailEntered, dd.email_configuration)
      m == BlockCheck(smsEntered, dd.sms_configuration)
  IN IF e = "panic" THEN Returned("panic", NoError)
     ELSE IF e = "nil"
       THEN Returned("shape", [aws |-> FALSE, code |-> "email_configuration is <nil>"])
     ELSE IF m = "panic" THEN Returned("panic", NoError)
     ELSE IF m = "nil"
       THEN Returned("shape", [aws |-> FALSE, code |-> "sms_configuration is <nil>"])
     ELSE ErrNil

\* The CreateUserPoolInput of Create: PoolName, and every attribute GetOk
\* finds set. (The element of a block is a map the schema made or the nil
\* interface value, never a nil map: the branches "config != nil" are always
\* taken once the type assertion is ok.)
CreateUserPoolInput(dd) ==
  [PoolName |-> dd.name,
   AliasAttributes |->
     IF GetOk(dd, "alias_attributes") THEN Ptr(dd.alias_attributes) ELSE Nil,
   AutoVerifiedAttributes |->
     IF GetOk(dd, "auto_verified_attributes")
       THEN Ptr(dd.auto_verified_attributes) ELSE Nil,
   EmailConfiguration |->
     IF GetOk(dd, "email_configuration")
       THEN Ptr(expandEmailConfiguration(dd.email_configuration[1])) ELSE Nil,
   EmailVerificationSubject |->
     IF GetOk(dd, "email_verification_subject")
       THEN Ptr(dd.email_verification_subject) ELSE Nil,
   EmailVerificationMessage |->
     IF GetOk(dd, "email_verification_message")
       THEN Ptr(dd.email_verification_message) ELSE Nil,
   MfaConfiguration |->
     IF GetOk(dd, "mfa_configuration") THEN Ptr(dd.mfa_configuration) ELSE Nil,
   SmsAuthenticationMessage |->
     IF GetOk(dd, "sms_authentication_message")
       THEN Ptr(dd.sms_authentication_message) ELSE Nil,
   SmsConfiguration |->
     IF GetOk(dd, "sms_configuration")
       THEN Ptr(expandSmsConfiguration(dd.sms_configuration[1])) ELSE Nil,
   SmsVerificationMessage |->
     IF GetOk(dd, "sms_verification_message")
       THEN Ptr(dd.sms_verification_message) ELSE Nil,
   UserPoolTags |-> IF GetOk(dd, "tags") THEN Ptr(dd.tags) ELSE Nil]

\* Mutant: mfa_configuration is sent whenever GetOk finds it set, as Create
\* sends it.
UpdateUserPoolInput_MfaWhenSet(old, dd) ==
  [UserPoolId |-> dd.id,
   AutoVerifiedAttributes |->
     IF HasChange(old, dd, "auto_verified_attributes")
       THEN Ptr(dd.auto_verified_attributes) ELSE Nil,
   EmailConfiguration |->
     IF HasChange(old, dd, "email_configuration")
       THEN Ptr(expandEmailConfiguration(dd.email_configuration[1])) ELSE Nil,
   EmailVerificationSubject |->
     IF HasChange(old, dd, "email_verification_subject")
       THEN Ptr(dd.email_verification_subject) ELSE Nil,
   EmailVerificationMessage |->
     IF HasChange(old, dd, "email_verification_message")
       THEN Ptr(dd.email_verification_message) ELSE Nil,
   MfaConfiguration |->
     IF GetOk(dd, "mfa_configuration") THEN Ptr(dd.mfa_configuration) ELSE Nil,
   SmsAuthenticationMessage |->
     IF HasChange(old, dd, "sms_authentication_message")
       THEN Ptr(dd.sms_authentication_message) ELSE Nil,
   SmsConfiguration |->
     IF HasChange(old, dd, "sms_configuration")
       THEN Ptr(expandSmsConfiguration(dd.sms_configuration[1])) ELSE Nil,
   SmsVerificationMessage |->
     IF HasChange(old, dd, "sms_verification_message")
       THEN Ptr(dd.sms_verification_message) ELSE Nil,
   UserPoolTags |-> IF HasChange(old, dd, "tags") THEN Ptr(dd.tags) ELSE Nil]

\* The UpdateUserPoolInput of Update: UserPoolId, and every attribute
\* HasChange finds changed (alias_attributes is not handled).
UpdateUserPoolInput(old, dd) ==
  [UserPoolId |-> dd.id,
   AutoVerifiedAttributes |->
     IF HasChange(old, dd, "auto_verified_attributes")
       THEN Ptr(dd.auto_verified_attributes) ELSE Nil,
   EmailConfiguration |->
     IF HasChange(old, dd, "email_configuration")
       THEN Ptr(expandEmailConfiguration(dd.email_configuration[1])) ELSE Nil,
   EmailVerificationSubject |->
     IF HasChange(old, dd, "email_verification_subject")
       THEN Ptr(dd.email_verification_subject) ELSE Nil,
   EmailVerificationMessage |->
     IF HasChange(old, dd, "email_verification_message")
       THEN Ptr(dd.email_verification_message) ELSE Nil,
   MfaConfiguration |->
     IF HasChange(old, dd, "mfa_configuration")
       THEN Ptr(dd.mfa_configuration) ELSE Nil,
   SmsAuthenticationMessage |->
     IF HasChange(old, dd, "sms_authentication_message")
       THEN Ptr(dd.sms_authentication_message) ELSE Nil,
   SmsConfiguration |->
     IF HasChange(old, dd, "sms_configuration")
       THEN Ptr(expandSmsConfiguration(dd.sms_configuration[1])) ELSE Nil,
   SmsVerificationMessage |->
     IF HasChange(old, dd, "sms_verification_message")
       THEN Ptr(dd.sms_verification_message) ELSE Nil,
   UserPoolTags |-> IF HasChange(old, dd, "tags") THEN Ptr(dd.tags) ELSE Nil]

\* What a handler run leaves: d, the remote pools, the number of pools
\* created, the error returned, the remote calls in order, the requests sent
\* the DescribeUserPool response (nil when none), and whether the pool
\* vanished between the two remote calls.
Outcome(dd, ps, n, err, calls, creq, ureq, resp, vanished) ==
  [d |-> dd, pools |-> ps, nextId |-> n, err |-> err, calls |-> calls,
   create_req |-> creq, update_req |-> ureq, resp |-> resp,
   vanished |-> vanished]

\* The pools after the first remote call and before the refresh: the pool
\* may be deleted out of band in between.
Between(ps, id, vanish) == IF vanish THEN [ps EXCEPT ![id] = Nil] ELSE ps

\* Mutant: Read is called before d.SetId, and the identifier stored after.
resourceAwsCognitoUserPoolCreate_ReadBeforeSetId(dd, ps, n, sc) ==
  LET built == BuildOutcome(GetOk(dd, "email_configuration"),
                            GetOk(dd, "sms_configuration"), dd)
      params == CreateUserPoolInput(dd)
      newId == PoolIds[n + 1]
      ps1 == Between([ps EXCEPT ![newId] = Ptr(CreatedPool(newId, params))],
                     newId, sc.vanish)
      rd == resourceAwsCognitoUserPoolRead(dd, ps1, sc.second)
  IN IF built.kind # "nil"
       THEN Outcome(dd, ps, n, built, <<>>, Nil, Nil, Nil, FALSE)
     ELSE IF sc.first # "none"
       THEN Outcome(dd, ps, n, Returned("wrapped", FaultError(sc.first)),
                    <<aCall("CreateUserPool", "", FALSE)>>, Ptr(params), Nil, Nil,
                    FALSE)
     ELSE Outcome([rd.d EXCEPT !.id = newId], ps1, n + 1, rd.err,
                  <<aCall("CreateUserPool", "", TRUE)>> \o rd.calls,
                  Ptr(params), Nil, Ptr(rd.resp), sc.vanish)

\* Create on d = dd (no identifier yet). sc: the faults of the two remote
\* calls and whether the pool vanishes between them.
resourceAwsCognitoUserPoolCreate(dd, ps, n, sc) ==
  LET built == BuildOutcome(GetOk(dd, "email_configuration"),
                            GetOk(dd, "sms_configuration"), dd)
      params == CreateUserPoolInput(dd)
      newId == PoolIds[n + 1]
      ps1 == Between([ps EXCEPT ![newId] = Ptr(CreatedPool(newId, params))],
                     newId, sc.vanish)
      rd == resourceAwsCognitoUserPoolRead([dd EXCEPT !.id = newId], ps1, sc.second)
  IN IF built.kind # "nil"
       THEN Outcome(dd, ps, n, built, <<>>, Nil, Nil, Nil, FALSE)
     ELSE IF sc.first # "none"
       THEN Outcome(dd, ps, n, Returned("wrapped", FaultError(sc.first)),
                    <<aCall("CreateUserPool", "", FALSE)>>, Ptr(params), Nil, Nil,
                    FALSE)
     ELSE Outcome(rd.d, ps1, n + 1, rd.err,
                  <<aCall("CreateUserPool", "", TRUE)>> \o rd.calls,
                  Ptr(params), Nil, Ptr(rd.resp), sc.vanish)

\* conn.UpdateUserPool: a fault, or ResourceNotFoundException when there is
\* no such pool, or success.
UpdateUserPoolError(ps, id, fault) ==
  IF fault # "none" THEN FaultError(fault)
  ELSE IF ~PoolExists(ps, id) THEN NotFoundError
  ELSE NoError

\* Update on d = dd, whose prior state is old.
resourceAwsCognitoUserPoolUpdate(old, dd, ps, n, sc) ==
  LET built == BuildOutcome(HasChange(old, dd, "email_configuration"),
                            HasChange(old, dd, "sms_configuration"), dd)
      params == UpdateUserPoolInput(old, dd)
      uerr == UpdateUserPoolError(ps, params.UserPoolId, sc.first)
      ps1 == Between([ps EXCEPT ![params.UserPoolId] =
                        Ptr(UpdatedPool(ps[params.UserPoolId][1], params))],
                     params.UserPoolId, sc.vanish)
      rd == resourceAwsCognitoUserPoolRead(dd, ps1, sc.second)
  IN IF built.kind = "panic"
       THEN Outcome(old, ps, n, built, <<>>, Nil, Nil, Nil, FALSE)
     ELSE IF built.kind # "nil"
       THEN Outcome(dd, ps, n, built, <<>>, Nil, Nil, Nil, FALSE)
     ELSE IF uerr # NoError
       THEN Outcome(dd, ps, n, Returned("wrapped", uerr),
                    <<aCall("UpdateUserPool", params.UserPoolId, FALSE)>>,
                    Nil, Ptr(params), Nil, FALSE)
     ELSE Outcome(rd.d, ps1, n, rd.err,
                  <<aCall("UpdateUserPool", params.UserPoolId, TRUE)>> \o rd.calls,
                  Nil, Ptr(params), Ptr(rd.resp), sc.vanish)

----------------------------------------------------------------------------
(* resourceAwsCognitoUserPoolDelete                                        *)

\* conn.DeleteUserPool, as UpdateUserPool.
DeleteUserPoolError(ps, id, fault) ==
  IF fault # "none" THEN FaultError(fault)
  ELSE IF ~PoolExists(ps, id) THEN NotFoundError
  ELSE NoError

\* Mutant: a pool that is already gone counts as deleted.
resourceAwsCognitoUserPoolDelete_IgnoresNotFound(dd, ps, n, fault) ==
  LET derr == DeleteUserPoolError(ps, dd.id, fault)
  IN IF derr # NoError /\ ~IsAlreadyGone(derr)
       THEN Outcome(dd, ps, n, Returned("wrapped", derr),
                    <<aCall("DeleteUserPool", dd.id, FALSE)>>, Nil, Nil, Nil,
                    FALSE)
     ELSE Outcome(dd, [ps EXCEPT ![dd.id] = Nil], n, ErrNil,
                  <<aCall("DeleteUserPool", dd.id, derr = NoError)>>,
                  Nil, Nil, Nil, FALSE)

\* Mutant: DeleteUserPool is keyed by the pool's name.
resourceAwsCognitoUserPoolDelete_KeyedByName(dd, ps, n, fault) ==
  LET derr == DeleteUserPoolError(ps, dd.name, fault)
  IN IF derr # NoError
       THEN Outcome(dd, ps, n, Returned("wrapped", derr),
                    <<aCall("DeleteUserPool", dd.name, FALSE)>>, Nil, Nil, Nil,
                    FALSE)
     ELSE Outcome(dd, [ps EXCEPT ![dd.name] = Nil], n, ErrNil,
                  <<aCall("DeleteUserPool", dd.name, TRUE)>>, Nil, Nil, Nil,
                  FALSE)

\* Delete on d = dd.
resourceAwsCognitoUserPoolDelete(dd, ps, n, fault) ==
  LET derr == DeleteUserPoolError(ps, dd.id, fault)
  IN IF derr # NoError
       THEN Outcome(dd, ps, n, Returned("wrapped", derr),
                    <<aCall("DeleteUserPool", dd.id, FALSE)>>, Nil, Nil, Nil,
                    FALSE)
     ELSE Outcome(dd, [ps EXCEPT ![dd.id] = Nil], n, ErrNil,
                  <<aCall("DeleteUserPool", dd.id, TRUE)>>, Nil, Nil, Nil, FALSE)

----------------------------------------------------------------------------
(* The resource: the handlers registered by resourceAwsCognitoUserPool,    *)
(* run one at a time on d.                                                 *)

Faults == {"none", "service", "transport"}

\* The faults of a handler's two remote calls and whether the pool vanishes
\* between them; nothing follows a first call that fails.
Scenarios ==
  {sc \in [first : {"none", "service"}, vanish : BOOLEAN, second : Faults] :
     sc.first # "none" => (~sc.vanish /\ sc.second = "none")}

NoConfig ==
  [name |-> "", alias_attributes |-> <<>>, auto_verified_attributes |-> <<>>,
   email_configuration |-> <<>>, email_verification_subject |-> "",
   email_verification_message |-> "", mfa_configuration |-> "",
   sms_authentication_message |-> "", sms_configuration |-> <<>>,
   sms_verification_message |-> "", tags |-> {}]

NoOutcome == Outcome(NoResource, <<>>, 0, ErrNil, <<>>, Nil, Nil, Nil, FALSE)

\* The record of a handler run, kept until the handler has returned: the
\* handler, its configuration, d before it and as planned, the tracked pool
\* before it, its outcome, and the handler run before it when that one was
\* a Delete that returned nil.
LastRun(op, c, before, planned, ps, r, prior) ==
  [op |-> op, cfg |-> c, before |-> before, planned |-> planned,
   pool_before |-> IF PoolExists(ps, before.id) THEN ps[before.id] ELSE Nil,
   d |-> r.d, err |-> r.err, calls |-> r.calls, create_req |-> r.create_req,
   update_req |-> r.update_req, resp |-> r.resp, vanished |-> r.vanished,
   prior |-> prior]

\* No handler is running.
Idle(prior) ==
  LastRun("none", NoConfig, NoResource, NoResource, <<>>, NoOutcome, prior)

\* A handler run ends: d is kept with its identifier, or dropped without
\* one; a panic ends the process, and d stays as it was stored. The remote
\* pools are as the run left them.
Finish(op, c, planned, r) ==
  /\ last.op = "none"
  /\ d' = IF r.d.id = "" THEN NoResource ELSE r.d
  /\ pools' = r.pools
  /\ nextId' = r.nextId
  /\ last' = LastRun(op, c, d, planned, pools, r, last.prior)

Init ==
  /\ d = NoResource
  /\ pools = [id \in AllIds |-> Nil]
  /\ nextId = 0
  /\ updates = 0
  /\ last = Idle("")

\* Create: a resource with no identifier yet, on a configuration.
Create ==
  /\ d.id = ""
  /\ nextId < MaxPools
  /\ \E c \in Configs, sc \in Scenarios :
       Finish("Create", c, Planned("", c),
              resourceAwsCognitoUserPoolCreate(Planned("", c), pools, nextId, sc))
  /\ UNCHANGED updates

\* Read: a refresh of a tracked resource.
Read ==
  /\ d.id # ""
  /\ \E fault \in Faults :
       LET rd == resourceAwsCognitoUserPoolRead(d, pools, fault)
       IN Finish("Read", NoConfig, d,
                 Outcome(rd.d, pools, nextId, rd.err, rd.calls, Nil, Nil,
                         Ptr(rd.resp), FALSE))
  /\ UNCHANGED updates

\* Update: a tracked resource, on a configuration that keeps the ForceNew
\* attributes name and alias_attributes.
Update ==
  /\ d.id # ""
  /\ updates < MaxUpdates
  /\ updates' = updates + 1
  /\ \E c \in Configs, sc \in Scenarios :
       /\ c.name = d.name
       /\ c.alias_attributes = d.alias_attributes
       /\ Finish("Update", c, Planned(d.id, c),
                 resourceAwsCognitoUserPoolUpdate(d, Planned(d.id, c), pools,
                                                  nextId, sc))

\* Delete: a tracked resource.
Delete ==
  /\ d.id # ""
  /\ \E fault \in {"none", "service"} :
       Finish("Delete", NoConfig, d,
              resourceAwsCognitoUserPoolDelete(d, pools, nextId, fault))
  /\ UNCHANGED updates

\* The handler has returned.
Return ==
  /\ last.op # "none"
  /\ last' = Idle(IF last.op = "Delete" /\ last.err.kind = "nil"
                    THEN "Delete" ELSE "")
  /\ UNCHANGED <<d, pools, nextId, updates>>

\* Between handler runs, the remote pool of the tracked resource is deleted
\* out of band.
RemoteDeletes ==
  /\ last.op = "none"
  /\ PoolExists(pools, d.id)
  /\ pools' = [pools EXCEPT ![d.id] = Nil]
  /\ UNCHANGED <<d, nextId, updates, last>>

\* Between handler runs, an attribute of the tracked resource's remote pool
\* is removed out of band.
RemoteClears ==
  /\ last.op = "none"
  /\ PoolExists(pools, d.id)
  /\ \E k \in RemoteKeys :
       /\ pools[d.id][1][k] # Nil
       /\ pools' = [pools EXCEPT ![d.id] = Ptr([pools[d.id][1] EXCEPT ![k] = Nil])]
  /\ UNCHANGED <<d, nextId, updates, last>>

Next ==
  Create \/ Read \/ Update \/ Delete \/ Return \/ RemoteDeletes \/ RemoteClears

Spec == Init /\ [][Next]_vars

----------------------------------------------------------------------------
(* Properties                                                              *)

\* The attribute of d each field of the remote pool is read into.
LocalKey ==
  [AliasAttributes |-> "alias_attributes",
   AutoVerifiedAttributes |-> "auto_verified_attributes",
   EmailConfiguration |-> "email_configuration",
   EmailVerificationSubject |-> "email_verification_subject",
   EmailVerificationMessage |-> "email_verification_message",
   MfaConfiguration |-> "mfa_configuration",
   SmsAuthenticationMessage |-> "sms_authentication_message",
   SmsConfiguration |-> "sms_configuration",
   SmsVerificationMessage |-> "sms_verification_message",
   UserPoolTags |-> "tags"]

\* The fields an UpdateUserPool request can carry.
MutableKeys == RemoteKeys \ {"AliasAttributes"}

\* The fields Read writes into d whether the response has them or not.
AlwaysSetKeys == {"EmailConfiguration", "SmsConfiguration", "UserPoolTags"}

Apis(calls) == [i \in 1..Len(calls) |-> calls[i].api]

\* The refresh of a Create or Update run: the first remote call went
\* through and DescribeUserPool answered (or failed).
Refreshed ==
  /\ last.op \in {"Create", "Update"}
  /\ Len(last.calls) = 2

\* The identifier the run's pool has: the one CreateUserPool returned, or
\* the one d held.
RunId == IF last.op = "Create" THEN PoolIds[nextId] ELSE last.before.id

\* C1: a Read whose DescribeUserPool reports not-found returns nil and
\* leaves d without identifier; on any other DescribeUserPool error it
\* returns that very error, unwrapped, and d keeps its identifier.
C1_ReadNotFoundIsAbsent ==
  (last.op = "Read" /\ ~last.resp[1].ok) =>
    IF last.resp[1].err = NotFoundError
      THEN last.err = ErrNil /\ last.d.id = "" /\ d.id = ""
      ELSE /\ last.err = Returned("raw", last.resp[1].err)
           /\ last.d.id = last.before.id
           /\ d.id = last.before.id

\* C1 witness: a Read of a resource whose pool is gone has returned nil and
\* cleared the identifier.
C1_Witness ==
  /\ last.op = "Read"
  /\ last.before.id # ""
  /\ last.resp[1].err = NotFoundError
  /\ last.err = ErrNil
  /\ d.id = ""

\* The block under key k is entered by the run and has no element to
\* address: it is empty, or its element is nil.
Unaddressable(k) ==
  /\ IF last.op = "Create" THEN GetOk(last.planned, k)
     ELSE HasChange(last.before, last.planned, k)
  /\ \/ Len(last.planned[k]) = 0
     \/ last.planned[k][1].isnil

\* C2: a Create or Update run on an email_configuration or
\* sms_configuration block that is present but empty or malformed ends with
\* the configuration shape error, and with no remote call made.
C2_MalformedBlockIsShapeError ==
  (/\ last.op \in {"Create", "Update"}
   /\ \/ Unaddressable("email_configuration")
      \/ Unaddressable("sms_configuration"))
  => (last.err.kind = "shape" /\ last.calls = <<>>)

\* C3: the UpdateUserPool request of an Update run carries the identifier
\* of d, and a mutable field exactly when its attribute differs between the
\* planned d and the prior one; with no difference it carries the
\* identifier alone and the remote pool stays as it was.
C3_UpdateCarriesExactlyTheDiff ==
  (last.op = "Update" /\ last.update_req # Nil) =>
    LET q == last.update_req[1]
        differs == {k \in MutableKeys :
                      last.planned[LocalKey[k]] # last.before[LocalKey[k]]}
    IN /\ q.UserPoolId = last.before.id
       /\ \A k \in MutableKeys : (q[k] # Nil) <=> (k \in differs)
       /\ (differs = {} /\ PoolExists(pools, last.before.id))
            => pools[last.before.id] = last.pool_before

\* C3 witness: an Update run has sent a request in which one attribute
\* changed and is carried, and another did not and is not.
C3_Witness ==
  /\ last.op = "Update"
  /\ last.update_req # Nil
  /\ last.calls[1].ok
  /\ last.planned.email_verification_subject # last.before.email_verification_subject
  /\ last.update_req[1].EmailVerificationSubject # Nil
  /\ last.planned.mfa_configuration = last.before.mfa_configuration
  /\ last.update_req[1].MfaConfiguration = Nil

\* C4: in a Create run DescribeUserPool is called only second, after a
\* CreateUserPool that succeeded, and under the identifier CreateUserPool
\* returned; after a CreateUserPool that failed the run returns the wrapped
\* error, d has no identifier and nothing else was called.
C4_CreateDescribesAfterSetId ==
  last.op = "Create" =>
    /\ \A i \in 1..Len(last.calls) :
         last.calls[i].api = "DescribeUserPool" =>
           /\ i = 2
           /\ last.calls[1] = aCall("CreateUserPool", "", TRUE)
           /\ last.calls[i].key = PoolIds[nextId]
    /\ (Len(last.calls) >= 1 /\ ~last.calls[1].ok) =>
         /\ last.calls = <<aCall("CreateUserPool", "", FALSE)>>
         /\ last.err.kind = "wrapped"
         /\ last.d.id = ""
         /\ d.id = ""

\* C4 witness: a Create run has created the pool and then described it
\* under the identifier d now holds.
C4_Witness ==
  /\ last.op = "Create"
  /\ Apis(last.calls) = <<"CreateUserPool", "DescribeUserPool">>
  /\ last.calls[2].ok
  /\ last.calls[2].key = d.id
  /\ d.id # ""

\* C5: after a Create run that returned nil with the pool read back, d
\* holds every attribute the configuration wrote, with the value it wrote;
\* and when the configuration does not write mfa_configuration, it is OFF
\* in d and in the remote pool.
C5_CreateReadRoundTrip ==
  (last.op = "Create" /\ last.err = ErrNil /\ d.id # "") =>
    /\ last.resp[1].ok
    /\ d.name = last.cfg.name
    /\ \A k \in SetKeys(last.cfg) : d[k] = last.cfg[k]
    /\ last.cfg.mfa_configuration = "" =>
         /\ d.mfa_configuration = UserPoolMfaTypeOff
         /\ pools[d.id][1].MfaConfiguration = Ptr(UserPoolMfaTypeOff)

\* C5 witness: a Create run on a configuration that writes both blocks and
\* no mfa_configuration has returned nil and d tracks the pool.
C5_Witness ==
  /\ last.op = "Create"
  /\ last.cfg = SeveralElse
  /\ last.err = ErrNil
  /\ d.id # ""
  /\ d.mfa_configuration = UserPoolMfaTypeOff

\* C6: a Read that follows a Delete that returned nil finds no pool: when
\* DescribeUserPool answers, it answers not-found, and the Read returns nil
\* and clears the identifier. A Delete run makes the one call
\* DeleteUserPool under the identifier of d and returns any error of it,
\* not-found as well, wrapped.
C6_DeleteThenReadIsAbsent ==
  /\ (last.op = "Read" /\ last.prior = "Delete") =>
       /\ ~last.resp[1].ok
       /\ last.calls = <<aCall("DescribeUserPool", last.before.id, FALSE)>>
       /\ last.resp[1].err = NotFoundError => (last.err = ErrNil /\ d.id = "")
  /\ last.op = "Delete" =>
       /\ Len(last.calls) = 1
       /\ last.calls[1].api = "DeleteUserPool"
       /\ last.calls[1].key = last.before.id
       /\ last.calls[1].ok <=> last.err = ErrNil
       /\ ~last.calls[1].ok => last.err.kind = "wrapped"
       /\ last.pool_before = Nil =>
            (last.err.kind = "wrapped" /\ last.err.cause.aws)
       /\ last.calls[1].ok => ~PoolExists(pools, last.before.id)

\* C6 witness: after a Delete that returned nil, a Read has returned nil
\* and left d without identifier.
C6_Witness ==
  /\ last.op = "Read"
  /\ last.prior = "Delete"
  /\ last.resp[1].err = NotFoundError
  /\ last.err = ErrNil
  /\ d.id = ""

\* C7: a Read, Update or Delete run keys every remote call by the
\* identifier d held when it started, and leaves d with that identifier or
\* with none; a Create run starts without identifier and keys its
\* DescribeUserPool by the identifier CreateUserPool returned, the only one
\* it stores; a remote pool keeps the identifier it was created under.
\* (The steps that are no handler run leave d alone.)
C7_IdentifierIsTheSoleKey ==
  /\ last.op \in {"Read", "Update", "Delete"} =>
       /\ last.before.id # ""
       /\ \A i \in 1..Len(last.calls) : last.calls[i].key = last.before.id
       /\ d.id \in {last.before.id, ""}
  /\ last.op = "Create" =>
       /\ last.before.id = ""
       /\ \A i \in 1..Len(last.calls) :
            last.calls[i].api # "CreateUserPool" =>
              last.calls[i].key = PoolIds[nextId]
       /\ d.id # "" => d.id = PoolIds[nextId]
  /\ \A id \in AllIds : PoolExists(pools, id) => pools[id][1].Id = id

\* C7 witness: an Update run has made both its remote calls under the
\* identifier d held before and holds now.
C7_Witness ==
  /\ last.op = "Update"
  /\ Len(last.calls) = 2
  /\ last.calls[1].key = d.id
  /\ last.calls[2].key = d.id
  /\ d.id = last.before.id

\* d as the Read of the last run found it: the stored d for a Read run, the
\* planned d for the refresh of a Create or Update run.
ReadFrom == IF last.op = "Read" THEN last.before ELSE last.planned

\* C8, as claimed: after a Read that returned nil with a response, every
\* attribute the response lacks is unset in d.
C8_AbsentRemoteFieldIsUnset ==
  (last.op = "Read" /\ last.resp[1].ok) =>
    \A k \in RemoteKeys :
      last.resp[1].pool[1][k] = Nil => d[LocalKey[k]] = Zero[LocalKey[k]]

\* What Read writes into d for a field it always sets.
Flattened(k, v) ==
  IF k = "EmailConfiguration" THEN flattenCognitoUserPoolEmailConfiguration(v)
  ELSE IF k = "SmsConfiguration" THEN flattenCognitoUserPoolSmsConfiguration(v)
  ELSE tagsToMapGeneric(v)

\* C8, amended: after a Read (a refresh as well) that got a response,
\* email_configuration, sms_configuration and tags are what the response
\* flattens to, whatever d held before; any other attribute the response
\* lacks has the value d held before the Read.
C8_AbsentRemoteFieldKeptOrOverwritten ==
  (/\ last.op \in {"Read", "Create", "Update"}
   /\ last.resp # Nil
   /\ last.resp[1].ok) =>
    \A k \in RemoteKeys :
      IF k \in AlwaysSetKeys
        THEN d[LocalKey[k]] = Flattened(k, last.resp[1].pool[1][k])
        ELSE last.resp[1].pool[1][k] = Nil =>
               d[LocalKey[k]] = ReadFrom[LocalKey[k]]

\* C8 witness: a Read got a response without subject and without tags; d
\* held both before, and now holds the subject still and no tags.
C8_Witness ==
  /\ last.op = "Read"
  /\ last.resp[1].ok
  /\ last.resp[1].pool[1].EmailVerificationSubject = Nil
  /\ last.before.email_verification_subject = "s1"
  /\ d.email_verification_subject = "s1"
  /\ last.resp[1].pool[1].UserPoolTags = Nil
  /\ last.before.tags # {}
  /\ d.tags = {}

\* The pool the first remote call of the last Create or Update run made.
PoolMade ==
  IF last.op = "Create" THEN CreatedPool(RunId, last.create_req[1])
  ELSE UpdatedPool(last.pool_before[1], last.update_req[1])

\* C9: when the refresh of a Create or Update run fails with an error other
\* than not-found, the run returns that error unwrapped, has made its two
\* calls and no other, leaves d with the pool's identifier and, unless the
\* pool vanished out of band, the remote pool as the first call made it.
C9_RefreshErrorReturnedAsIs ==
  (Refreshed /\ ~last.resp[1].ok /\ last.resp[1].err # NotFoundError) =>
    /\ last.err = Returned("raw", last.resp[1].err)
    /\ Apis(last.calls) = <<last.op \o "UserPool", "DescribeUserPool">>
    /\ d.id = RunId
    /\ ~last.vanished => pools[RunId] = Ptr(PoolMade)

\* C9 witness: an Update run whose UpdateUserPool changed the pool has
\* returned the transport error of its refresh.
C9_Witness ==
  /\ last.op = "Update"
  /\ Refreshed
  /\ last.err = Returned("raw", TransportError)
  /\ pools[d.id] # last.pool_before
  /\ d.id = last.before.id

\* C10: when the refresh of a Create or Update run reports not-found, the
\* run returns nil and d has no identifier; and a Create run that returned
\* nil and left an identifier left the one CreateUserPool returned.
C10_RefreshNotFoundIsSuccess ==
  /\ (Refreshed /\ last.resp[1].err = NotFoundError) =>
       (last.err = ErrNil /\ last.d.id = "" /\ d.id = "")
  /\ (last.op = "Create" /\ last.err = ErrNil /\ d.id # "") =>
       /\ last.calls[1] = aCall("CreateUserPool", "", TRUE)
       /\ d.id = PoolIds[nextId]
       /\ pools[d.id][1].Id = d.id

\* C10 witness: a Create run whose pool vanished before the refresh has
\* returned nil, and d tracks nothing.
C10_Witness ==
  /\ last.op = "Create"
  /\ Refreshed
  /\ last.calls[1] = aCall("CreateUserPool", "", TRUE)
  /\ last.vanished
  /\ last.resp[1].err = NotFoundError
  /\ last.err = ErrNil
  /\ d.id = ""

====
